---- MODULE Spec2Model ----
(***************************************************************************)
(* A model of the helper routines of the geocat-examples gallery scripts:  *)
(*   - findLocalMinima / makeCoordArr    (Plots/Satellites/NCL_sat_1.py)   *)
(*   - the low-pressure labelling loop   (Plots/Satellites/NCL_sat_1.py)   *)
(*   - month_to_season                   (Plots/Contours/NCL_eof_1_1.py)   *)
(*                                                                         *)
(* Units.  A pressure is held as the integer t counting tenths of a hPa    *)
(* (1 = 0.1 hPa); it stands for the float64 the script computes from the   *)
(* file's short value 10*t Pa, float64(10*t) * 0.01.  Gradients and the    *)
(* tolerance are float64 values, computed digit by digit as IEEE-754       *)
(* binary64 does.  Arrays are functions over 0..n-1 as in the source;      *)
(* Python lists are sequences.                                             *)
(***************************************************************************)
EXTENDS Integers, Sequences, FiniteSets, TLC

VARIABLES
    \* NCL_sat_1.py: module-level data and the locals of findLocalMinima
    U, wrap_U, lat, lon,
    pc, minPressure, firstzeroes, secondzeroes, commonzeroes, examined,
    minimacoords, returned, repeated,
    \* the scripts' control flow (exceptions of library calls)
    script, phase, lowClevels, labelIdx, labelled, raised,
    \* NCL_eof_1_1.py: month_to_season
    xMon, season, epc, xSea, errmsg, resampled,
    \* NCL_eof_1_1.py: the longitude coordinate of ds and the data columns
    ds, lpc,
    \* NCL_sat_1.py: the contour levels
    contours, cpc

satVars == <<U, wrap_U, lat, lon, pc, minPressure, firstzeroes, secondzeroes,
             commonzeroes, examined, minimacoords, returned, repeated>>
runVars == <<script, phase, lowClevels, labelIdx, labelled, raised>>
eofVars == <<xMon, season, epc, xSea, errmsg, resampled>>
lonVars == <<ds, lpc>>
cntVars == <<contours, cpc>>
vars == <<satVars, runVars, eofVars, lonVars, cntVars>>

----------------------------------------------------------------------------
(* Bounds of the model *)

\* largest number of grid cells (rows * columns) of a pressure field
MaxCells == 7

\* pressures a grid cell may hold, in tenths of a hPa.  A field takes its
\* values in one band: around 0, where differences of one and two tenths
\* come out as exactly 0.1 and 0.2 in float64, or around the default
\* threshold of 980 hPa, where they come out slightly larger
LevelBands == {{0, 1, 2}, {9799, 9800, 9801}}
PressureLevels == UNION LevelBands
\* arguments of findLocalMinima, in tenths of a hPa; 9800 is the default 980
MinPressures == {1, 9800}

Rows(A) == Cardinality(DOMAIN A)
Cols(A) == Cardinality(DOMAIN A[0])

\* Python indexing of a length-n axis: a negative index counts from the end
PyIndex(k, n) == IF k < 0 THEN k + n ELSE k

----------------------------------------------------------------------------
(* IEEE-754 binary64, the arithmetic of the float64 arrays of NCL_sat_1.py. *)
(* A natural number is the set of the exponents of its binary expansion     *)
(* ({0, 2} is 5, {} is 0).  A float64 is [neg, m, e] for the value          *)
(* (-1)^neg * m * 2^e with m odd, so that equal values are equal records.   *)

\* significand width of a float64, in binary digits
Precision == 53

Highest(S) == CHOOSE k \in S : \A j \in S : j <= k
Lowest(S) == CHOOSE k \in S : \A j \in S : k <= j

\* 1 when digit k of x is set
Digit(x, k) == IF k \in x THEN 1 ELSE 0

\* the number of binary digits of x
Width(x) == IF x = {} THEN 0 ELSE Highest(x) + 1

\* the binary expansion of an integer 0 <= n < 2^30
Bits(n) == {k \in 0..29 : (n \div (2 ^ k)) % 2 = 1}

\* the carry into digit k of x + y
Carry(x, y, k) ==
    \E j \in 0..(k - 1) :
        /\ Digit(x, j) + Digit(y, j) = 2
        /\ \A i \in (j + 1)..(k - 1) : Digit(x, i) + Digit(y, i) >= 1

Add(x, y) ==
    {k \in 0..(IF Width(x) < Width(y) THEN Width(y) ELSE Width(x)) :
        (Digit(x, k) + Digit(y, k)
            + (IF Carry(x, y, k) THEN 1 ELSE 0)) % 2 = 1}

\* the borrow from digit k of x - y
Borrow(x, y, k) ==
    \E j \in 0..(k - 1) :
        /\ Digit(x, j) < Digit(y, j)
        /\ \A i \in (j + 1)..(k - 1) : Digit(x, i) <= Digit(y, i)

\* x - y for x >= y
Sub(x, y) ==
    {k \in 0..(Width(x) - 1) :
        (Digit(x, k) - Digit(y, k)
            - (IF Borrow(x, y, k) THEN 1 ELSE 0)) % 2 = 1}

\* x < y: the highest digit in which they differ is a digit of y
Less(x, y) == \E k \in y \ x : \A j \in x \ y : j < k

ShiftLeft(x, s) == {k + s : k \in x}

\* x * y: y shifted by every digit of x, added up
RECURSIVE Mul(_, _)
Mul(x, y) ==
    IF x = {} THEN {}
    ELSE Add(ShiftLeft(y, Lowest(x)), Mul(x \ {Lowest(x)}, y))

\* the float64 of value (-1)^neg * m * 2^e whatever the parity of m
Canon(neg, m, e) ==
    IF m = {} THEN [neg |-> FALSE, m |-> {}, e |-> 0]
    ELSE [neg |-> neg, m |-> {k - Lowest(m) : k \in m}, e |-> e + Lowest(m)]

\* m * 2^e rounded to Precision digits: to nearest, ties to even
Round(neg, m, e) ==
    IF Width(m) <= Precision THEN Canon(neg, m, e)
    ELSE LET s == Width(m) - Precision
             kept == {k - s : k \in {j \in m : j >= s}}
             up == /\ (s - 1) \in m
                   /\ \/ \E k \in m : k < s - 1
                      \/ 0 \in kept
         IN  Canon(neg, IF up THEN Add(kept, {0}) ELSE kept, e + s)

\* 2^j modulo n, for j <= 90 and n <= 800: 2^j is (2^(j/3))^3 * 2^(j%3)
PowerOfTwoMod(j, n) ==
    ((((2 ^ (j \div 3)) % n) ^ 3) * (2 ^ (j % 3))) % n

\* the digit of weight 2^(-j) of the fraction num/den, 0 < num < den
FractionDigit(num, den, j) ==
    IF (num * PowerOfTwoMod(j, 2 * den)) % (2 * den) >= den THEN 1 ELSE 0

\* the float64 a decimal literal num/den (0 < num < den) is read as: the
\* first Precision significant digits of the fraction and one more, with
\* a last digit telling whether anything is left beyond them, rounded
Literal(num, den) ==
    LET first == Lowest({j \in 1..30 : FractionDigit(num, den, j) = 1})
        last == first + Precision
        left == (num * PowerOfTwoMod(last, den)) % den # 0
    IN  Round(FALSE,
              {last + 1 - j : j \in {i \in first..last :
                                       FractionDigit(num, den, i) = 1}}
                  \cup (IF left THEN {0} ELSE {}),
              -(last + 1))

\* astype('float64') of an integer
Float(n) == Canon(n < 0, Bits(IF n < 0 THEN -n ELSE n), 0)

\* x * y
Times(x, y) == Round(x.neg # y.neg, Mul(x.m, y.m), x.e + y.e)

\* the significand of x at the exponent e <= x.e
Align(x, e) == ShiftLeft(x.m, x.e - e)

\* x - y of two floats that are not negative
Minus(x, y) ==
    LET e == IF x.e < y.e THEN x.e ELSE y.e
    IN  IF Less(Align(x, e), Align(y, e))
        THEN Round(TRUE, Sub(Align(y, e), Align(x, e)), e)
        ELSE Round(FALSE, Sub(Align(x, e), Align(y, e)), e)

\* x / 2.0
Half(x) == IF x.m = {} THEN x ELSE [x EXCEPT !.e = @ - 1]

\* np.absolute of one element
absolute(x) == [x EXCEPT !.neg = FALSE]

\* x <= y of two floats that are not negative
LessEq(x, y) ==
    LET e == IF x.e < y.e THEN x.e ELSE y.e
    IN  ~Less(Align(y, e), Align(x, e))

----------------------------------------------------------------------------
(* NCL_sat_1.py *)

\* gvutil.xr_add_cyclic_longitudes(U, "lon"): the first longitude column is
\* appended once more after the last one
xr_add_cyclic_longitudes(A) ==
    [i \in DOMAIN A |->
        [j \in 0..Cols(A) |-> IF j = Cols(A) THEN A[i][0] ELSE A[i][j]]]

\* makeCoordArr: (lat, lon) tuples with the dimensions of the pressure data
makeCoordArr(la, lo) ==
    [x \in DOMAIN la |-> [y \in DOMAIN lo |-> <<la[x], lo[y]>>]]

\* U = U.astype('float64'); U = U*0.01 for a cell of 10*t Pa
hPa(t) == Times(Float(10 * t), Literal(1, 100))

\* U.data: the float64 of a cell, by its tenths
data == [t \in PressureLevels |-> hPa(t)]

\* the float64 differences between the cells of the data, by their tenths
differences ==
    [a \in PressureLevels |->
        [b \in PressureLevels |-> Minus(data[a], data[b])]]

\* the float64 difference a - b of two cells, looked up when both are
\* pressures of PressureLevels
Difference(a, b) ==
    IF {a, b} \subseteq PressureLevels THEN differences[a][b]
    ELSE Minus(hPa(a), hPa(b))

\* np.gradient along one axis of n samples f[0..n-1], unit spacing:
\* one-sided differences at the two ends, central differences inside
Gradient(f, k, n) ==
    IF k = 0 THEN Difference(f[1], f[0])
    ELSE IF k = n - 1 THEN Difference(f[n - 1], f[n - 2])
    ELSE Half(Difference(f[k + 1], f[k - 1]))

\* np.absolute(np.gradient(A)): <<along axis 0 (latitude), along axis 1
\* (longitude)>>, each with the shape of A
AbsGradient(A) ==
    << [i \in DOMAIN A |-> [j \in DOMAIN A[0] |->
           absolute(Gradient([r \in DOMAIN A |-> A[r][j]], i, Rows(A)))]],
       [i \in DOMAIN A |-> [j \in DOMAIN A[0] |->
           absolute(Gradient(A[i], j, Cols(A)))]] >>

\* the number a derivative is compared with: the literal 0.1
bound == Literal(1, 10)

\* the gradient magnitudes the pressures of PressureLevels give
gradients ==
    UNION {{absolute(differences[a][b]), Half(absolute(differences[a][b]))} :
              a \in PressureLevels, b \in PressureLevels}

\* those of them that are <= bound
within == {g \in gradients : LessEq(g, bound)}

\* arr <= bound, element-wise, looked up when the gradient is one of the
\* pressures of PressureLevels
WithinBound(g) ==
    IF g \in gradients THEN g \in within ELSE LessEq(g, bound)

\* the indices of an R x C array in row-major order
Indices(R, C) == [k \in 1..(R * C) |-> <<(k - 1) \div C, (k - 1) % C>>]

\* np.argwhere(arr <= bound): the [i, j] rows, in row-major order
argwhere(arr) ==
    SelectSeq(Indices(Rows(arr), Cols(arr)),
              LAMBDA x : WithinBound(arr[x[1]][x[2]]))

\* "x in zeroes" for a numpy row x and a 2-D numpy array zeroes:
\* (zeroes == x).any(), true as soon as ONE element of one row matches
NumpyIn(x, zeroes) ==
    \E r \in 1..Len(zeroes) : zeroes[r][1] = x[1] \/ zeroes[r][2] = x[2]

\* for x in secondzeroes: if x in firstzeroes: commonzeroes.append(x)
CommonZeroes(first, second) ==
    SelectSeq(second, LAMBDA x : NumpyIn(x, first))

\* xval = x[0]; yval = x[1]-1, as U.data[xval][yval] resolves them
ExaminedCell(x, A) == <<x[1], PyIndex(x[2] - 1, Cols(A))>>

\* a variant admitting a pressure equal to the threshold
AtOrBelowMinPressure(p, mp) == p <= mp

\* U.data[xval][yval] < minPressure, both in tenths: the float64 of a cell
\* is never below the float64 of the decimal with the same tenths, so the
\* two floats compare as the tenths do
BelowMinPressure(p, mp) == p < mp

\* xcoord = -1*coordonmap[0]; ycoord = coordonmap[1]-180
GlobeCoord(coordonmap) == <<(-1) * coordonmap[1], coordonmap[2] - 180>>

\* the loop over commonzeroes building minimacoords
RECURSIVE MinimaCoords(_, _, _, _)
MinimaCoords(common, A, coordarr, mp) ==
    IF common = <<>> THEN <<>>
    ELSE LET c == ExaminedCell(Head(common), A)
             rest == MinimaCoords(Tail(common), A, coordarr, mp)
         IN  IF BelowMinPressure(A[c[1]][c[2]], mp)
             THEN <<GlobeCoord(coordarr[c[1]][c[2]])>> \o rest
             ELSE rest

\* grid shapes: at least 2 samples per axis (np.gradient needs them)
Shapes == {s \in (2..MaxCells) \X (2..MaxCells) : s[1] * s[2] <= MaxCells}

\* coordinate axes of the data file: latitude from 90 down to -90, longitude
\* from 0 eastwards, evenly spaced
LatAxis(n) == [i \in 0..(n - 1) |-> 90 - i * (180 \div (n - 1))]
LonAxis(n) == [j \in 0..(n - 1) |-> j * (360 \div n)]

SatInit ==
    /\ \E s \in Shapes : \E band \in LevelBands :
          /\ U \in [0..(s[1] - 1) -> [0..(s[2] - 1) -> band]]
          /\ lat = LatAxis(s[1])
          /\ lon = LonAxis(s[2])
    /\ wrap_U = xr_add_cyclic_longitudes(U)
    /\ pc = "loaded"
    /\ minPressure = 0
    /\ firstzeroes = <<>>
    /\ secondzeroes = <<>>
    /\ commonzeroes = <<>>
    /\ examined = <<>>
    /\ minimacoords = <<>>
    /\ returned = <<>>
    /\ repeated = FALSE

\* the body of findLocalMinima(mp): its locals and its return value.
\* returned[m] keeps the list the latest call with argument m gave back, and
\* repeated tells that this call's argument had been used before
Scan(mp) ==
    /\ firstzeroes' = argwhere(AbsGradient(wrap_U)[1])
    /\ secondzeroes' = argwhere(AbsGradient(wrap_U)[2])
    /\ commonzeroes' = CommonZeroes(firstzeroes', secondzeroes')
    /\ examined' = [k \in 1..Len(commonzeroes') |->
                       ExaminedCell(commonzeroes'[k], U)]
    /\ minimacoords' = MinimaCoords(commonzeroes', U,
                                    makeCoordArr(lat, lon), mp)
    /\ returned' = [m \in (DOMAIN returned) \cup {mp} |->
                       IF m = mp THEN minimacoords' ELSE returned[m]]
    /\ repeated' = (mp \in DOMAIN returned)
    /\ minPressure' = mp
    /\ pc' = "returned"

\* a variant that overwrites the cells it accepts with the threshold
findLocalMinimaInPlace(mp) ==
    /\ Scan(mp)
    /\ U' = [i \in DOMAIN U |-> [j \in DOMAIN U[0] |->
                IF /\ \E k \in 1..Len(examined') : examined'[k] = <<i, j>>
                   /\ BelowMinPressure(U[i][j], mp)
                THEN mp ELSE U[i][j]]]
    /\ UNCHANGED <<wrap_U, lat, lon>>

\* one call findLocalMinima(mp): nothing is assigned but locals
findLocalMinima(mp) ==
    /\ Scan(mp)
    /\ UNCHANGED <<U, wrap_U, lat, lon>>

SatIdle ==
    /\ U = [i \in 0..1 |-> [j \in 0..1 |-> 0]]
    /\ wrap_U = xr_add_cyclic_longitudes(U)
    /\ lat = LatAxis(2)
    /\ lon = LonAxis(2)
    /\ pc = "loaded"
    /\ minPressure = 0
    /\ firstzeroes = <<>>
    /\ secondzeroes = <<>>
    /\ commonzeroes = <<>>
    /\ examined = <<>>
    /\ minimacoords = <<>>
    /\ returned = <<>>
    /\ repeated = FALSE

RunIdle ==
    /\ script = "NCL_sat_1"
    /\ phase = "done"
    /\ lowClevels = 0
    /\ labelIdx = 0
    /\ labelled = {}
    /\ raised = {}

EofIdle ==
    /\ xMon = <<>>
    /\ season = ""
    /\ epc = "idle"
    /\ xSea = <<>>
    /\ errmsg = ""
    /\ resampled = FALSE

LonIdle ==
    /\ ds = <<>>
    /\ lpc = "idle"

CntIdle ==
    /\ contours = <<>>
    /\ cpc = "idle"

Init == SatInit /\ RunIdle /\ EofIdle /\ LonIdle /\ CntIdle

Next == \E mp \in MinPressures :
            findLocalMinima(mp)
                /\ UNCHANGED <<runVars, eofVars, lonVars, cntVars>>

Spec == Init /\ [][Next]_vars

----------------------------------------------------------------------------
(* Properties of findLocalMinima *)

Range(q) == {q[k] : k \in 1..Len(q)}
Cells == (DOMAIN U) \X (DOMAIN U[0])
\* both gradient components of wrap_U at index x are within the tolerance
BothWithin(x) ==
    /\ WithinBound(AbsGradient(wrap_U)[1][x[1]][x[2]])
    /\ WithinBound(AbsGradient(wrap_U)[2][x[1]][x[2]])
\* the cell of U whose data sits at index x of wrap_U
SameCell(x) == <<x[1], x[2] % Cols(U)>>
\* entry k of commonzeroes passed the pressure test and gave a coordinate
Contributes(k) ==
    BelowMinPressure(U[examined[k][1]][examined[k][2]], minPressure)

\* C1 (as claimed): every index that contributes a returned coordinate has
\* BOTH gradient components within the tolerance
C1_BothComponents ==
    pc = "returned" =>
        \A k \in 1..Len(commonzeroes) :
            Contributes(k) => BothWithin(commonzeroes[k])

\* C2 (as claimed): every cell of U with both gradient components within the
\* tolerance and its own pressure below minPressure has its coordinate in the
\* returned list
C2_AllQualifyingReturned ==
    pc = "returned" =>
        \A c \in Cells :
            (BothWithin(c) /\ U[c[1]][c[2]] < minPressure)
                => GlobeCoord(<<lat[c[1]], lon[c[2]]>>) \in Range(minimacoords)

\* C3: every returned coordinate is the coordinate of a cell whose pressure
\* is strictly below minPressure, and no cell at or above minPressure has its
\* coordinate returned
C3_BelowThreshold ==
    pc = "returned" =>
        /\ \A k \in 1..Len(minimacoords) :
              \E c \in Cells :
                  /\ GlobeCoord(<<lat[c[1]], lon[c[2]]>>) = minimacoords[k]
                  /\ U[c[1]][c[2]] < minPressure
        /\ \A c \in Cells :
              U[c[1]][c[2]] >= minPressure
                  => GlobeCoord(<<lat[c[1]], lon[c[2]]>>) \notin Range(minimacoords)

\* C3 witness: a call returned a coordinate and also examined a cell whose
\* pressure equals minPressure, which it left out
C3_Witness ==
    /\ pc = "returned"
    /\ minimacoords # <<>>
    /\ \E k \in 1..Len(examined) :
          U[examined[k][1]][examined[k][2]] = minPressure

\* C4 (as claimed): the cell tested and returned for a flagged index (i, j)
\* is the cell whose data sits at row i, column j of wrap_U
C4_SameCell ==
    pc = "returned" =>
        \A k \in 1..Len(commonzeroes) : examined[k] = SameCell(commonzeroes[k])

\* C9: a call changes neither U, wrap_U nor the coordinate axes, and a call
\* with an argument used before returns the same list, in the same order
C9_PurelyFunctional ==
    [][ /\ U' = U /\ wrap_U' = wrap_U /\ lat' = lat /\ lon' = lon
        /\ (pc' = "returned" /\ minPressure' \in DOMAIN returned)
              => minimacoords' = returned[minPressure'] ]_satVars

\* C9 witness: a second call with the same argument returned a non-empty list
C9_Witness ==
    /\ pc = "returned"
    /\ repeated
    /\ minimacoords # <<>>
    /\ Cardinality(DOMAIN returned) = 2

\* C10 (as claimed): an index whose gradient component equals the tolerance
\* exactly is not flagged
C10_StrictTolerance ==
    pc = "returned" =>
        /\ \A k \in 1..Len(firstzeroes) :
              AbsGradient(wrap_U)[1][firstzeroes[k][1]][firstzeroes[k][2]]
                  # bound
        /\ \A k \in 1..Len(secondzeroes) :
              AbsGradient(wrap_U)[2][secondzeroes[k][1]][secondzeroes[k][2]]
                  # bound

\* C11 (as claimed): the coordinate returned for a cell lies on the globe
\* scale [-90, 90] x [-180, 180] and, read as (latitude, longitude), is the
\* cell's own location: the same latitude, the longitude congruent modulo 360
C11_SameLocation ==
    pc = "returned" =>
        \A k \in 1..Len(examined) :
            Contributes(k) =>
                LET la == lat[examined[k][1]]
                    lo == lon[examined[k][2]]
                    g == GlobeCoord(<<la, lo>>)
                IN  /\ g[1] \in -90..90
                    /\ g[2] \in -180..180
                    /\ g[1] = la
                    /\ (g[2] - lo) % 360 = 0

----------------------------------------------------------------------------
(* NCL_eof_1_1.py: month_to_season *)

\* number of calendar years of monthly data
MaxYears == 2

\* the first year of the subset, ds.sel(time=slice('1979-01-1', ...))
FirstYear == 1979

\* a time stamp is the first day of a month, kept as 12 * year + (month - 1)
Stamp(year, month) == 12 * year + (month - 1)
Month(t) == (t % 12) + 1
Year(t) == t \div 12

\* the season argument: the twelve keys of the table and some others
SeasonArgs ==
    {"DJF", "JFM", "FMA", "MAM", "AMJ", "MJJ", "JJA", "JAS", "ASO", "SON",
     "OND", "NDJ", "djf", "XYZ", ""}

\* a table whose last entry selects the anchor month itself
seasons_pd_NDJ11 ==
    [DJF |-> <<"QS-DEC", 1>>, JFM |-> <<"QS-JAN", 2>>, FMA |-> <<"QS-FEB", 3>>,
     MAM |-> <<"QS-MAR", 4>>, AMJ |-> <<"QS-APR", 5>>, MJJ |-> <<"QS-MAY", 6>>,
     JJA |-> <<"QS-JUN", 7>>, JAS |-> <<"QS-JUL", 8>>, ASO |-> <<"QS-AUG", 9>>,
     SON |-> <<"QS-SEP", 10>>, OND |-> <<"QS-OCT", 11>>, NDJ |-> <<"QS-NOV", 11>>]

\* a table that lacks the key NDJ
seasons_pd_NoNDJ ==
    [DJF |-> <<"QS-DEC", 1>>, JFM |-> <<"QS-JAN", 2>>, FMA |-> <<"QS-FEB", 3>>,
     MAM |-> <<"QS-MAR", 4>>, AMJ |-> <<"QS-APR", 5>>, MJJ |-> <<"QS-MAY", 6>>,
     JJA |-> <<"QS-JUN", 7>>, JAS |-> <<"QS-JUL", 8>>, ASO |-> <<"QS-AUG", 9>>,
     SON |-> <<"QS-SEP", 10>>, OND |-> <<"QS-OCT", 11>>]

\* seasons_pd: season key -> (pandas resampling frequency, month selected)
seasons_pd ==
    [DJF |-> <<"QS-DEC", 1>>, JFM |-> <<"QS-JAN", 2>>, FMA |-> <<"QS-FEB", 3>>,
     MAM |-> <<"QS-MAR", 4>>, AMJ |-> <<"QS-APR", 5>>, MJJ |-> <<"QS-MAY", 6>>,
     JJA |-> <<"QS-JUN", 7>>, JAS |-> <<"QS-JUL", 8>>, ASO |-> <<"QS-AUG", 9>>,
     SON |-> <<"QS-SEP", 10>>, OND |-> <<"QS-OCT", 11>>, NDJ |-> <<"QS-NOV", 12>>]

\* pandas: the month a quarter-start frequency "QS-XXX" is anchored on
AnchorMonth ==
    [f \in {"QS-JAN", "QS-FEB", "QS-MAR", "QS-APR", "QS-MAY", "QS-JUN",
            "QS-JUL", "QS-AUG", "QS-SEP", "QS-OCT", "QS-NOV", "QS-DEC"} |->
        CASE f = "QS-JAN" -> 1 [] f = "QS-FEB" -> 2 [] f = "QS-MAR" -> 3
          [] f = "QS-APR" -> 4 [] f = "QS-MAY" -> 5 [] f = "QS-JUN" -> 6
          [] f = "QS-JUL" -> 7 [] f = "QS-AUG" -> 8 [] f = "QS-SEP" -> 9
          [] f = "QS-OCT" -> 10 [] f = "QS-NOV" -> 11 [] f = "QS-DEC" -> 12]

\* the start of the quarter of frequency freq that holds time stamp t:
\* quarters begin on the anchor month and every third month from it
BinStart(t, freq) == t - ((Month(t) - AnchorMonth[freq]) % 3)

\* loffset='MS': a label on a month start moves to the next month start
LabelOffset(t) == t + 1

RECURSIVE Sum(_, _)
Sum(x, T) ==
    IF T = {} THEN 0
    ELSE LET t == CHOOSE u \in T : TRUE IN x[t] + Sum(x, T \ {t})

\* .mean() of the values of x at the time stamps T
Mean(x, T) == Sum(x, T) \div Cardinality(T)

Min(T) == CHOOSE t \in T : \A u \in T : t <= u
Max(T) == CHOOSE t \in T : \A u \in T : t >= u

\* xMon.resample(time=freq, loffset='MS').mean(): one entry per quarter from
\* the quarter of the first time stamp to the quarter of the last one, in
\* time order, labelled with the moved start of the quarter
Resample(x, freq) ==
    LET first == BinStart(Min(DOMAIN x), freq)
        last == BinStart(Max(DOMAIN x), freq)
        bin(k) == {t \in DOMAIN x : BinStart(t, freq) = first + 3 * (k - 1)}
    IN  [k \in 1..(((last - first) \div 3) + 1) |->
            [time |-> LabelOffset(first + 3 * (k - 1)),
             members |-> bin(k),
             mean |-> Mean(x, bin(k))]]

\* xSeasons.sel(time=xSeasons.time.dt.month.isin(season_sel), drop=True)
SelectMonth(xSeasons, season_sel) ==
    SelectSeq(xSeasons, LAMBDA r : Month(r.time) \in {season_sel})

\* the message of the ValueError
BadSeasonMessage(s) ==
    "contributed: month_to_season: bad season: SEASON = " \o s

\* monthly values: a multiple of 6, so that every mean is an integer
Patterns == {1, 2}
MonthlyValue(p, t) == 6 * ((p * t) % 5)

EofInit ==
    /\ \E m \in 1..12, n \in 1..MaxYears, p \in Patterns :
          xMon = [t \in Stamp(FirstYear, m)..(Stamp(FirstYear, m) + 12 * n - 1)
                     |-> MonthlyValue(p, t)]
    /\ season = ""
    /\ epc = "ready"
    /\ xSea = <<>>
    /\ errmsg = ""
    /\ resampled = FALSE

\* month_to_season(xMon, s)
month_to_season(s) ==
    /\ epc = "ready"
    /\ season' = s
    /\ IF s \notin DOMAIN seasons_pd
       THEN /\ epc' = "raised"
            /\ errmsg' = BadSeasonMessage(s)
            /\ UNCHANGED <<xSea, resampled>>
       ELSE /\ epc' = "returned"
            /\ xSea' = SelectMonth(Resample(xMon, seasons_pd[s][1]),
                                   seasons_pd[s][2])
            /\ resampled' = TRUE
            /\ errmsg' = ""
    /\ UNCHANGED xMon

NextEof == \E s \in SeasonArgs :
               month_to_season(s)
                   /\ UNCHANGED <<satVars, runVars, lonVars, cntVars>>

InitEof == SatIdle /\ RunIdle /\ EofInit /\ LonIdle /\ CntIdle

SpecEof == InitEof /\ [][NextEof]_vars

----------------------------------------------------------------------------
(* Properties of month_to_season *)

\* the twelve recognised season keys
RecognisedKeys ==
    {"DJF", "JFM", "FMA", "MAM", "AMJ", "MJJ", "JJA", "JAS", "ASO", "SON",
     "OND", "NDJ"}

\* the three months a season key spells out
SeasonMonths ==
    [DJF |-> <<12, 1, 2>>, JFM |-> <<1, 2, 3>>, FMA |-> <<2, 3, 4>>,
     MAM |-> <<3, 4, 5>>, AMJ |-> <<4, 5, 6>>, MJJ |-> <<5, 6, 7>>,
     JJA |-> <<6, 7, 8>>, JAS |-> <<7, 8, 9>>, ASO |-> <<8, 9, 10>>,
     SON |-> <<9, 10, 11>>, OND |-> <<10, 11, 12>>, NDJ |-> <<11, 12, 1>>]

\* the data run from a January to a December
CompleteYears ==
    /\ Month(Min(DOMAIN xMon)) = 1
    /\ Month(Max(DOMAIN xMon)) = 12

\* C5: a key outside the twelve raises the ValueError naming the key and
\* nothing is resampled or selected; one of the twelve raises nothing
C5_BadSeason ==
    epc # "ready" =>
        /\ season \notin RecognisedKeys =>
              /\ epc = "raised"
              /\ errmsg = BadSeasonMessage(season)
              /\ ~resampled
              /\ xSea = <<>>
        /\ season \in RecognisedKeys => (epc = "returned" /\ errmsg = "")

\* C5 witness: a call with the lower-case key was refused
C5_Witness == epc = "raised" /\ season = "djf"

\* C6 (as claimed): on N complete calendar years the result has N values,
\* each the mean of the three months of the season
C6_OnePerYear ==
    (epc = "returned" /\ CompleteYears) =>
        /\ Len(xSea) = Cardinality(DOMAIN xMon) \div 12
        /\ \A k \in 1..Len(xSea) :
              /\ Cardinality(xSea[k].members) = 3
              /\ {Month(t) : t \in xSea[k].members}
                    = {SeasonMonths[season][i] : i \in 1..3}

\* C7: the returned time stamps fall on the middle month of the season: the
\* resample is anchored on the season's first month, the selected month is
\* the one after the anchor month, and every value carries that month and
\* averages months of the season only
C7_MiddleMonth ==
    epc = "returned" =>
        /\ AnchorMonth[seasons_pd[season][1]] = SeasonMonths[season][1]
        /\ seasons_pd[season][2] = (AnchorMonth[seasons_pd[season][1]] % 12) + 1
        /\ xSea # <<>>
        /\ \A k \in 1..Len(xSea) :
              /\ Month(xSea[k].time) = SeasonMonths[season][2]
              /\ \A t \in xSea[k].members :
                    \E i \in 1..3 : Month(t) = SeasonMonths[season][i]

\* C7 witness: a DJF call returned values stamped January
C7_Witness ==
    /\ epc = "returned"
    /\ season = "DJF"
    /\ xSea # <<>>
    /\ \A k \in 1..Len(xSea) : Month(xSea[k].time) = 1

----------------------------------------------------------------------------
(* The scripts' control flow: library calls and their exceptions *)

\* number of points in lowClevels
MaxPoints == 4

Scripts ==
    {"NCL_maponly_1", "NCL_native_2", "NCL_sat_1", "NCL_panel_13",
     "NCL_vector_5", "NCL_eof_1_1"}

\* a script is module-level straight-line code; NCL_sat_1 alone has a loop
\* with a try/except in it, between two straight-line parts.  phase is
\* "body" (straight-line code, up to the loop if there is one), "labels"
\* (the labelling loop), "rest" (the code after the loop), "done" (the script
\* ran to its end) or "stopped" (an exception ended it)
RunInit ==
    /\ script \in Scripts
    /\ phase = "body"
    /\ lowClevels \in (IF script = "NCL_sat_1" THEN 0..MaxPoints ELSE {0})
    /\ labelIdx = 0
    /\ labelled = {}
    /\ raised = {}

\* the library calls of a straight-line part: either they all succeed and the
\* script moves on, or one raises; nothing catches it and the script stops
LibraryCall(ok) ==
    /\ phase \in {"body", "rest"}
    /\ IF ok
       THEN /\ phase' = IF phase = "body" /\ script = "NCL_sat_1"
                        THEN "labels" ELSE "done"
            /\ UNCHANGED raised
       ELSE /\ phase' = "stopped"
            /\ raised' = raised \cup {[site |-> phase, point |-> 0]}
    /\ UNCHANGED <<script, lowClevels, labelIdx, labelled>>

\* a loop body in which the exception of clabel leaves the loop
LabelContourUncaught(ok) ==
    /\ phase = "labels"
    /\ labelIdx < lowClevels
    /\ IF ok
       THEN /\ labelled' = labelled \cup {labelIdx}
            /\ labelIdx' = labelIdx + 1
            /\ UNCHANGED <<raised, phase>>
       ELSE /\ raised' = raised \cup {[site |-> "clabel", point |-> labelIdx]}
            /\ phase' = "stopped"
            /\ UNCHANGED <<labelled, labelIdx>>
    /\ UNCHANGED <<script, lowClevels>>

\* for x in lowClevels: try: ax.clabel(p, manual=[x], ...)
\*                      except: continue
LabelContour(ok) ==
    /\ phase = "labels"
    /\ labelIdx < lowClevels
    /\ IF ok
       THEN /\ labelled' = labelled \cup {labelIdx}
            /\ UNCHANGED raised
       ELSE /\ raised' = raised \cup {[site |-> "clabel", point |-> labelIdx]}
            /\ UNCHANGED labelled
    /\ labelIdx' = labelIdx + 1
    /\ UNCHANGED <<script, phase, lowClevels>>

\* the loop has gone through lowClevels
LabelsDone ==
    /\ phase = "labels"
    /\ labelIdx = lowClevels
    /\ phase' = "rest"
    /\ UNCHANGED <<script, lowClevels, labelIdx, labelled, raised>>

InitRun == SatIdle /\ RunInit /\ EofIdle /\ LonIdle /\ CntIdle

NextRun ==
    \/ \E ok \in BOOLEAN :
          LibraryCall(ok) /\ UNCHANGED <<satVars, eofVars, lonVars, cntVars>>
    \/ \E ok \in BOOLEAN :
          LabelContour(ok) /\ UNCHANGED <<satVars, eofVars, lonVars, cntVars>>
    \/ LabelsDone /\ UNCHANGED <<satVars, eofVars, lonVars, cntVars>>

SpecRun == InitRun /\ [][NextRun]_vars

----------------------------------------------------------------------------
(* Properties of the scripts' exception handling *)

\* C8 (as claimed): whenever a library call has raised, the script has
\* stopped; no exception is caught and discarded
C8_AllPropagate == raised # {} => phase = "stopped"

\* C8 (amended): an exception raised in straight-line code stops the script
\* and nothing else does; an exception raised by clabel in the labelling loop
\* is discarded, its point is left unlabelled and the loop goes on
C8_PropagateExceptLabels ==
    /\ phase = "stopped" <=> (\E e \in raised : e.site # "clabel")
    /\ \A e \in raised : e.site = "clabel" =>
          /\ script = "NCL_sat_1"
          /\ e.point < labelIdx
          /\ e.point \notin labelled
    /\ labelled \cup {e.point : e \in {r \in raised : r.site = "clabel"}}
          = 0..(labelIdx - 1)

\* C8 witness: the satellite script ran to its end although clabel raised
\* for one point, and a later point was labelled
C8_Witness ==
    /\ script = "NCL_sat_1"
    /\ phase = "done"
    /\ \E e \in raised, q \in labelled : e.site = "clabel" /\ e.point < q

----------------------------------------------------------------------------
(* NCL_eof_1_1.py: rearranging the longitudes *)

\* number of longitudes of the dataset
MaxLons == 3

\* longitudes of the data file, in degrees
LonValues == {0, 90, 179, 180, 181, 270, 359, 360}

\* a rearrangement that leaves out the shift before the modulo
FlipLonNoShift(l) == (l % 360) - 180

\* ((ds["lon"] + 180) % 360) - 180, for one longitude
FlipLon(l) == ((l + 180) % 360) - 180

\* ds.sortby("lon"): the columns in ascending order of their longitude,
\* columns of equal longitude in their former order
RECURSIVE InsertByLon(_, _)
InsertByLon(r, q) ==
    IF q = <<>> THEN <<r>>
    ELSE IF r.lon < Head(q).lon THEN <<r>> \o q
    ELSE <<Head(q)>> \o InsertByLon(r, Tail(q))

RECURSIVE sortby(_)
sortby(q) ==
    IF q = <<>> THEN <<>>
    ELSE InsertByLon(q[Len(q)], sortby(SubSeq(q, 1, Len(q) - 1)))

\* the dataset as read: one column per longitude, ascending; col names the
\* column of slp data (by the longitude it was read with)
RECURSIVE AsRead(_)
AsRead(S) ==
    IF S = {} THEN <<>>
    ELSE LET m == CHOOSE t \in S : \A u \in S : t >= u
         IN  Append(AsRead(S \ {m}), [lon |-> m, col |-> m])

LonInit ==
    /\ \E S \in SUBSET LonValues :
          /\ S # {}
          /\ Cardinality(S) <= MaxLons
          /\ ds = AsRead(S)
    /\ lpc = "read"

\* ds["lon"] = ((ds["lon"] + 180) % 360) - 180
FlipLongitudes ==
    /\ lpc = "read"
    /\ ds' = [k \in 1..Len(ds) |-> [lon |-> FlipLon(ds[k].lon), col |-> ds[k].col]]
    /\ lpc' = "flipped"

\* ds = ds.sortby("lon")
SortLongitudes ==
    /\ lpc = "flipped"
    /\ ds' = sortby(ds)
    /\ lpc' = "sorted"

InitLon == SatIdle /\ RunIdle /\ EofIdle /\ LonInit /\ CntIdle

NextLon ==
    \/ FlipLongitudes /\ UNCHANGED <<satVars, runVars, eofVars, cntVars>>
    \/ SortLongitudes /\ UNCHANGED <<satVars, runVars, eofVars, cntVars>>

SpecLon == InitLon /\ [][NextLon]_vars

\* C12: after the rearrangement every longitude lies in [-180, 180) and is
\* congruent modulo 360 to the longitude its column was read with; after the
\* sort the longitudes ascend, and no column is lost
C12_FlipLongitudes ==
    /\ lpc \in {"flipped", "sorted"} =>
          /\ \A k \in 1..Len(ds) :
                /\ ds[k].lon >= -180
                /\ ds[k].lon < 180
                /\ (ds[k].lon - ds[k].col) % 360 = 0
          /\ Cardinality({ds[k].col : k \in 1..Len(ds)}) = Len(ds)
    /\ lpc = "sorted" =>
          \A k \in 1..(Len(ds) - 1) : ds[k].lon <= ds[k + 1].lon

\* C12 witness: a dataset read with the longitudes 180 and 360 among others
\* has been rearranged and sorted, and its columns changed places
C12_Witness ==
    /\ lpc = "sorted"
    /\ \E k \in 1..Len(ds) : ds[k].col = 360 /\ ds[k].lon = 0
    /\ \E k \in 1..Len(ds) : ds[k].col = 180 /\ ds[k].lon = -180
    /\ \E k \in 1..(Len(ds) - 1) : ds[k].col > ds[k + 1].col

----------------------------------------------------------------------------
(* NCL_sat_1.py: the contour levels *)

\* np.arange(948, 1060, 4) and np.append(contours, 975)
ArangeStart == 948
ArangeStop == 1060
ArangeStep == 4
ExtraLevel == 975

\* the text box: 'CONTOUR FROM 948 TO 1064 BY 4'
TextFrom == 948
TextTo == 1064
TextBy == 4

\* np.arange(start, stop, step) for integers and step > 0: start, start+step,
\* ... up to but not including stop
arange(start, stop, step) ==
    [k \in 1..(IF stop > start THEN (stop - start + step - 1) \div step ELSE 0)
        |-> start + (k - 1) * step]

\* np.sort of a 1-D integer array
RECURSIVE InsertLevel(_, _)
InsertLevel(v, q) ==
    IF q = <<>> THEN <<v>>
    ELSE IF v < Head(q) THEN <<v>> \o q
    ELSE <<Head(q)>> \o InsertLevel(v, Tail(q))

RECURSIVE sort(_)
sort(q) ==
    IF q = <<>> THEN <<>>
    ELSE InsertLevel(q[Len(q)], sort(SubSeq(q, 1, Len(q) - 1)))

\* the script has read its data and has not yet built the levels
CntInit ==
    /\ contours = <<>>
    /\ cpc = "start"

\* contours = np.arange(948, 1060, 4)
MakeContours ==
    /\ cpc = "start"
    /\ contours' = arange(ArangeStart, ArangeStop, ArangeStep)
    /\ cpc' = "arange"

\* contours = np.append(contours, 975)
AppendLevel ==
    /\ cpc = "arange"
    /\ contours' = Append(contours, ExtraLevel)
    /\ cpc' = "appended"

\* contours = np.sort(contours)
SortContours ==
    /\ cpc = "appended"
    /\ contours' = sort(contours)
    /\ cpc' = "sorted"

\* p = wrap_U.plot.contour(..., levels=contours, ...): the levels drawn
PlotContours ==
    /\ cpc = "sorted"
    /\ cpc' = "plotted"
    /\ UNCHANGED contours

InitContour == SatInit /\ RunIdle /\ EofIdle /\ LonIdle /\ CntInit

NextContour ==
    \/ MakeContours /\ UNCHANGED <<satVars, runVars, eofVars, lonVars>>
    \/ AppendLevel /\ UNCHANGED <<satVars, runVars, eofVars, lonVars>>
    \/ SortContours /\ UNCHANGED <<satVars, runVars, eofVars, lonVars>>
    \/ PlotContours /\ UNCHANGED <<satVars, runVars, eofVars, lonVars>>

SpecContour == InitContour /\ [][NextContour]_vars

\* C13 (as claimed): the levels drawn are exactly the values from 948 to
\* 1064 in steps of 4, as the text box says
C13_LevelsAsLabelled ==
    cpc = "plotted" =>
        /\ {contours[k] : k \in 1..Len(contours)}
              = {l \in TextFrom..TextTo : (l - TextFrom) % TextBy = 0}
        /\ \A k \in 1..(Len(contours) - 1) : contours[k] < contours[k + 1]

====
